---- MODULE Spec2Model ----
(***************************************************************************)
(* Model of conf.py (Poor Richard's Settings Framework):                   *)
(*   update_from_env(settings_class, prefix)  -- lines 47-87               *)
(*   get_missing_settings(settings_class)     -- lines 90-111              *)
(* Python strings are sequences of one-character strings, so that          *)
(* startswith, replace, lower, slicing and substring tests are computed    *)
(* as the interpreter computes them.                                       *)
(***************************************************************************)
EXTENDS Integers, Sequences, FiniteSets, TLC

(* ---------------- bounds ---------------- *)
\* largest number of entries in the process environment
MaxEnv ==
    2
\* largest number of update_from_env calls one thread makes in a row
MaxCalls ==
    2

(* ---------------- string literals ---------------- *)
\* N_* attribute names, K_* environment keys, V_* environment values
N_optional_settings ==
    <<"_", "o", "p", "t", "i", "o", "n", "a", "l", "_", "s", "e", "t", "t", "i", "n", "g", "s">>
N_no_environ_set ==
    <<"_", "n", "o", "_", "e", "n", "v", "i", "r", "o", "n", "_", "s", "e", "t">>
N_s1 ==
    <<"s", "1">>
N_s2 ==
    <<"s", "2">>
N_s3 ==
    <<"s", "3">>
N_s5 ==
    <<"s", "5">>
N_optional ==
    <<"o", "p", "t", "i", "o", "n", "a", "l">>
N_password ==
    <<"p", "a", "s", "s", "w", "o", "r", "d">>
N_doc ==
    <<"_", "_", "d", "o", "c", "_", "_">>
K_S1 ==
    <<"M", "Y", "A", "P", "P", "_", "S", "1">>
K_s1 ==
    <<"M", "Y", "A", "P", "P", "_", "s", "1">>
K_S2 ==
    <<"M", "Y", "A", "P", "P", "_", "S", "2">>
K_S3 ==
    <<"M", "Y", "A", "P", "P", "_", "S", "3">>
K_S5 ==
    <<"M", "Y", "A", "P", "P", "_", "S", "5">>
K_PASSWORD ==
    <<"M", "Y", "A", "P", "P", "_", "P", "A", "S", "S", "W", "O", "R", "D">>
K_SMYAPP_1 ==
    <<"M", "Y", "A", "P", "P", "_", "S", "M", "Y", "A", "P", "P", "_", "1">>
K_NO_ENVIRON_SET ==
    <<"M", "Y", "A", "P", "P", "_", "_", "N", "O", "_", "E", "N", "V", "I", "R", "O", "N", "_", "S", "E", "T">>
K_OPTIONAL_SETTINGS ==
    <<"M", "Y", "A", "P", "P", "_", "_", "O", "P", "T", "I", "O", "N", "A", "L", "_", "S", "E", "T", "T", "I", "N", "G", "S">>
K_OTHER ==
    <<"X", "M", "Y", "A", "P", "P", "_", "S", "1">>
K_BARE ==
    <<"M", "Y", "A", "P", "P", "_">>
K_NEW ==
    <<"M", "Y", "A", "P", "P", "_", "N", "E", "W">>
V_32 ==
    <<"3", "2">>
V_abc ==
    <<"a", "b", "c">>
V_7 ==
    <<"7">>
V_1 ==
    <<"1">>
V_empty ==
    <<>>
V_a_test ==
    <<"a", " ", "t", "e", "s", "t">>
V_skipped ==
    <<"v">>
V_supersecret ==
    <<"s", "u", "p", "e", "r", "s", "e", "c", "r", "e", "t">>
V_1234 ==
    <<"1", "2", "3", "4">>
V_x ==
    <<"x">>
P_MYAPP ==
    <<"M", "Y", "A", "P", "P", "_">>
S_password ==
    <<"p", "a", "s", "s", "w", "o", "r", "d">>
S_mask ==
    <<"*", "*", "*", "*">>
S_underscore ==
    <<"_">>
UpperCase ==
    <<"A", "B", "C", "D", "E", "F", "G", "H", "I", "J", "K", "L", "M", "N", "O", "P", "Q", "R", "S", "T", "U", "V", "W", "X", "Y", "Z">>
LowerCase ==
    <<"a", "b", "c", "d", "e", "f", "g", "h", "i", "j", "k", "l", "m", "n", "o", "p", "q", "r", "s", "t", "u", "v", "w", "x", "y", "z">>
Digits ==
    <<"0", "1", "2", "3", "4", "5", "6", "7", "8", "9">>

(* ---------------- str methods used by conf.py ---------------- *)
\* k.startswith(prefix)
StartsWith(k, p) ==
    /\ Len(p) <= Len(k)
    /\ SubSeq(k, 1, Len(p)) = p

\* s.replace(old, ""): every non-overlapping occurrence of old, scanning
\* left to right, is removed; an empty old leaves s unchanged
RECURSIVE Replace(_, _)
Replace(s, old) ==
    IF Len(old) = 0 \/ Len(s) < Len(old) THEN s
    ELSE IF SubSeq(s, 1, Len(old)) = old
         THEN Replace(SubSeq(s, Len(old) + 1, Len(s)), old)
         ELSE <<Head(s)>> \o Replace(Tail(s), old)

\* c.lower() for one character
LowerChar(c) ==
    IF \E i \in 1..Len(UpperCase) : UpperCase[i] = c
    THEN LowerCase[CHOOSE i \in 1..Len(UpperCase) : UpperCase[i] = c]
    ELSE c

\* s.lower()
Lower(s) ==
    [i \in 1..Len(s) |-> LowerChar(s[i])]

\* needle in hay, for two str
Contains(hay, needle) ==
    \E i \in 0..(Len(hay) - Len(needle)) :
        SubSeq(hay, i + 1, i + Len(needle)) = needle

\* v[:n] for a str
Slice(v, n) ==
    SubSeq(v, 1, IF Len(v) < n THEN Len(v) ELSE n)

\* line 68: attr = k.replace(prefix, "").lower()
AttrOf(k, prefix) ==
    Lower(Replace(k, prefix))

(* ---------------- Python values ---------------- *)
None ==
    [t |-> "None"]
\* an attribute that is not in the class __dict__
Absent ==
    [t |-> "absent"]
PyStr(s) ==
    [t |-> "str", v |-> s]
PyInt(n) ==
    [t |-> "int", v |-> n]
PyBool(b) ==
    [t |-> "bool", v |-> b]
PyTuple(xs) ==
    [t |-> "tuple", v |-> xs]

\* attr in container (lines 70 and 105): membership for a tuple of names,
\* substring test for a str
In(attr, container) ==
    CASE container.t = "tuple" -> \E i \in 1..Len(container.v) : container.v[i] = attr
      [] container.t = "str" -> Contains(container.v, attr)
      [] OTHER -> FALSE

\* int(s) accepts a non-empty run of decimal digits (signs, blanks and
\* underscores are outside the alphabet of the modelled values)
IsDecimal(s) ==
    /\ Len(s) > 0
    /\ \A i \in 1..Len(s) : \E d \in 1..Len(Digits) : Digits[d] = s[i]

DigitVal(c) ==
    (CHOOSE d \in 1..Len(Digits) : Digits[d] = c) - 1

RECURSIVE IntOf(_)
IntOf(s) ==
    IF Len(s) = 0 THEN 0
    ELSE 10 * IntOf(SubSeq(s, 1, Len(s) - 1)) + DigitVal(s[Len(s)])

\* line 77: type_hints.get(attr)(v).  hint is the annotation of attr, or
\* "NoHint" when type_hints.get returns None.  The result names the
\* exception the call raises, or "none" with the converted value.
\*   int(v)        ValueError unless v is a decimal literal
\*   bool(v)       True iff v is non-empty
\*   str(v)        v
\*   List[..](v), Tuple[..](v)   TypeError: cannot be instantiated
\*   None(v)       TypeError: 'NoneType' object is not callable
Typecast(hint, v) ==
    CASE hint = "int" ->
            IF IsDecimal(v) THEN [exc |-> "none", val |-> PyInt(IntOf(v))]
            ELSE [exc |-> "ValueError", val |-> PyStr(v)]
      [] hint = "bool" -> [exc |-> "none", val |-> PyBool(Len(v) > 0)]
      [] hint = "str" -> [exc |-> "none", val |-> PyStr(v)]
      [] OTHER -> [exc |-> "TypeError", val |-> PyStr(v)]

\* line 78: except (AttributeError, KeyError, TypeError)
Caught ==
    {"AttributeError", "KeyError", "TypeError"}

(* ---------------- inputs ---------------- *)
\* entries the process environment is drawn from
Entries ==
    { [k |-> K_S1, v |-> V_32], [k |-> K_S1, v |-> V_abc], [k |-> K_s1, v |-> V_7],
      [k |-> K_S2, v |-> V_1], [k |-> K_S2, v |-> V_empty], [k |-> K_S3, v |-> V_a_test],
      [k |-> K_S5, v |-> V_skipped],
      [k |-> K_PASSWORD, v |-> V_supersecret], [k |-> K_PASSWORD, v |-> V_abc],
      [k |-> K_PASSWORD, v |-> V_1234],
      [k |-> K_SMYAPP_1, v |-> V_7],
      [k |-> K_NO_ENVIRON_SET, v |-> V_x], [k |-> K_OPTIONAL_SETTINGS, v |-> V_x],
      [k |-> K_OTHER, v |-> V_32], [k |-> K_BARE, v |-> V_x], [k |-> K_NEW, v |-> V_x] }

\* os.environ: its keys are pairwise distinct; the sequence is the order in
\* which iterating over it yields them
Environs ==
    UNION { { e \in [1..n -> Entries] : \A i, j \in 1..n : i # j => e[i].k # e[j].k }
            : n \in 0..MaxEnv }

Prefixes ==
    {P_MYAPP}

\* the names in the __dict__ of the settings classes, in definition order;
\* __doc__ is added by the interpreter after the class body, with value None
Fields ==
    <<N_optional_settings, N_no_environ_set, N_s1, N_s2, N_s3, N_s5,
      N_optional, N_password, N_doc>>

\* every name a class __dict__ can hold
AttrNames ==
    {Fields[i] : i \in 1..Len(Fields)}
        \cup {AttrOf(e.k, p) : e \in Entries, p \in Prefixes}

\* a settings class: the names of its __dict__ in insertion order, their
\* values, and its annotations ("NoHint" where there is none)
MakeClass(vals, anns) ==
    [order |-> Fields,
     val |-> [a \in AttrNames |->
                IF \E i \in 1..Len(Fields) : Fields[i] = a
                THEN vals[CHOOSE i \in 1..Len(Fields) : Fields[i] = a]
                ELSE Absent],
     ann |-> [a \in AttrNames |->
                IF \E i \in 1..Len(Fields) : Fields[i] = a
                THEN anns[CHOOSE i \in 1..Len(Fields) : Fields[i] = a]
                ELSE "NoHint"]]

\* the class of test_update_from_env, with the annotated lists of Settings,
\* an optional field and a password field
UpdateSettings ==
    MakeClass(
      <<PyTuple(<<N_optional>>), PyTuple(<<N_s5>>), None, None, None,
        PyTuple(<<1, 2, 3>>), None, None, None>>,
      <<"Tuple", "Tuple", "int", "bool", "str", "List", "str", "str", "NoHint">>)

\* the class of test_get_missing_settings: a set int field, nothing optional,
\* nothing protected, and a numeric password field
MissingSettings ==
    MakeClass(
      <<PyTuple(<<>>), PyTuple(<<>>), None, PyInt(123), None,
        PyTuple(<<1, 2, 3>>), None, None, None>>,
      <<"NoHint", "NoHint", "str", "int", "str", "List", "str", "int", "NoHint">>)

Definitions ==
    {UpdateSettings, MissingSettings}

Threads ==
    {1, 2}
MainThread ==
    1

(* ---------------- class attribute access ---------------- *)
\* getattr(settings_class, name, default)
GetAttr(c, name, default) ==
    IF c.val[name] = Absent THEN default ELSE c.val[name]

\* setattr(settings_class, name, value): a new name goes to the end of the
\* class __dict__, an existing one keeps its place
SetAttr(c, name, value) ==
    [c EXCEPT !.val[name] = value,
              !.order = IF c.val[name] = Absent THEN Append(@, name) ELSE @]

(* ---------------- get_missing_settings ---------------- *)
\* lines 102-111, from the i-th name of vars(settings_class) on
RECURSIVE MissingFromNoPrivateCheck(_, _)
MissingFromNoPrivateCheck(c, i) ==
    IF i > Len(c.order) THEN <<>>
    ELSE LET a == c.order[i] IN
         IF In(a, GetAttr(c, N_optional_settings, PyTuple(<<>>)))
         THEN MissingFromNoPrivateCheck(c, i + 1)
         ELSE IF c.val[a] = None
              THEN <<a>> \o MissingFromNoPrivateCheck(c, i + 1)
              ELSE MissingFromNoPrivateCheck(c, i + 1)

RECURSIVE MissingFrom(_, _)
MissingFrom(c, i) ==
    IF i > Len(c.order) THEN <<>>
    ELSE LET a == c.order[i] IN
         IF \/ StartsWith(a, S_underscore)
            \/ In(a, GetAttr(c, N_optional_settings, PyTuple(<<>>)))
         THEN MissingFrom(c, i + 1)
         ELSE IF c.val[a] = None
              THEN <<a>> \o MissingFrom(c, i + 1)
              ELSE MissingFrom(c, i + 1)

get_missing_settings(c) ==
    MissingFrom(c, 1)

(* ---------------- state ---------------- *)
VARIABLES
    cls,        \* object -> settings class (order, val, ann)
    environ,    \* thread -> os.environ as the thread's process enumerates it
    prefix,     \* thread -> the prefix argument of its calls
    obj,        \* thread -> the settings class it passes to update_from_env
    quota,      \* thread -> calls of update_from_env it has still to make
    pc,         \* thread -> "idle", "scan" (line 64) or "bind" (line 82)
    idx,        \* thread -> position of the for loop in the environment
    type_hints, \* thread -> line 62, the annotations read at the call
    attr,       \* thread -> line 68
    v,          \* thread -> lines 74-79
    lock,       \* thread -> whether the Lock its call created is held
    pre,        \* thread -> the class as it was when the current call began
    results,    \* thread -> per finished call, the exception and the class
    assigned,   \* every setattr so far: thread, call, key, name
    log,        \* every record passed to logger.debug at line 82
    missing,    \* the list the last get_missing_settings call returned
    validated,  \* whether get_missing_settings has been called
    baseline    \* get_missing_settings of the class as constructed

vars ==
    <<cls, environ, prefix, obj, quota, pc, idx, type_hints, attr, v, lock,
      pre, results, assigned, log, missing, validated, baseline>>

locals ==
    <<idx, type_hints, attr, v>>
inputs ==
    <<environ, prefix, obj>>
validator ==
    <<missing, validated, baseline>>

\* the state common to every initial condition
InitCommon ==
    /\ pc = [t \in Threads |-> "idle"]
    /\ idx = [t \in Threads |-> 0]
    /\ type_hints = [t \in Threads |-> [a \in AttrNames |-> "NoHint"]]
    /\ attr = [t \in Threads |-> <<>>]
    /\ v = [t \in Threads |-> None]
    /\ lock = [t \in Threads |-> FALSE]
    /\ pre = [t \in Threads |-> cls[obj[t]]]
    /\ results = [t \in Threads |-> <<>>]
    /\ assigned = <<>>
    /\ log = <<>>
    /\ missing = <<>>
    /\ validated = FALSE
    /\ baseline = get_missing_settings(cls[1])

\* one thread, calling update_from_env up to MaxCalls times in a row
Init ==
    /\ \E d \in Definitions : cls = [o \in {1, 2} |-> d]
    /\ \E e \in Environs : environ = [t \in Threads |-> e]
    /\ \E p \in Prefixes : prefix = [t \in Threads |-> p]
    /\ obj = [t \in Threads |-> 1]
    /\ quota = [t \in Threads |-> IF t = MainThread THEN MaxCalls ELSE 0]
    /\ InitCommon

\* two threads of one process, each calling update_from_env once on the
\* same class
InitThreads ==
    /\ \E d \in Definitions : cls = [o \in {1, 2} |-> d]
    /\ \E e \in Environs : environ = [t \in Threads |-> e]
    /\ \E p \in Prefixes : prefix = [t \in Threads |-> p]
    /\ obj = [t \in Threads |-> 1]
    /\ quota = [t \in Threads |-> 1]
    /\ InitCommon

\* e2 holds the entries of e1 in some order
Permutation(e1, e2) ==
    /\ Len(e1) = Len(e2)
    /\ {e1[i] : i \in 1..Len(e1)} = {e2[i] : i \in 1..Len(e2)}

\* two runs of the program on equal classes and equal environments that
\* are enumerated in possibly different orders
InitOrders ==
    /\ \E d \in Definitions : cls = [o \in {1, 2} |-> d]
    /\ \E e1, e2 \in Environs :
          /\ Permutation(e1, e2)
          /\ environ = [t \in Threads |-> IF t = 1 THEN e1 ELSE e2]
    /\ \E p \in Prefixes : prefix = [t \in Threads |-> p]
    /\ obj = [t \in Threads |-> t]
    /\ quota = [t \in Threads |-> 1]
    /\ InitCommon

(* ---------------- update_from_env ---------------- *)
\* the current key of the for loop, line 64
Key(t) ==
    environ[t][idx[t]].k

\* the with block is left, by return or by an exception: the Lock of this
\* call is released and the call's outcome recorded
Leave(t, exc) ==
    /\ lock' = [lock EXCEPT ![t] = FALSE]
    /\ results' = [results EXCEPT ![t] = Append(@, [exc |-> exc, val |-> cls[obj[t]].val])]
    /\ pc' = [pc EXCEPT ![t] = "idle"]

\* lines 62-64: read the annotations, create a Lock and acquire it.  The
\* Lock is a new object in every call, so acquiring it never waits.
Call(t) ==
    /\ pc[t] = "idle"
    /\ quota[t] > 0
    /\ lock[t] = FALSE
    /\ quota' = [quota EXCEPT ![t] = @ - 1]
    /\ type_hints' = [type_hints EXCEPT ![t] = cls[obj[t]].ann]
    /\ lock' = [lock EXCEPT ![t] = TRUE]
    /\ idx' = [idx EXCEPT ![t] = 1]
    /\ pre' = [pre EXCEPT ![t] = cls[obj[t]]]
    /\ pc' = [pc EXCEPT ![t] = "scan"]
    /\ UNCHANGED <<cls, inputs, attr, v, results, assigned, log, validator>>

\* lines 65-66: the key does not start with the prefix
NotPrefixed(t) ==
    /\ pc[t] = "scan"
    /\ idx[t] <= Len(environ[t])
    /\ ~StartsWith(Key(t), prefix[t])
    /\ idx' = [idx EXCEPT ![t] = @ + 1]
    /\ UNCHANGED <<cls, inputs, quota, pc, type_hints, attr, v, lock, pre,
                   results, assigned, log, validator>>

\* lines 68-72: the derived name is in _no_environ_set
Disallowed(t) ==
    /\ pc[t] = "scan"
    /\ idx[t] <= Len(environ[t])
    /\ StartsWith(Key(t), prefix[t])
    /\ In(AttrOf(Key(t), prefix[t]),
          GetAttr(cls[obj[t]], N_no_environ_set, PyTuple(<<>>)))
    /\ idx' = [idx EXCEPT ![t] = @ + 1]
    /\ UNCHANGED <<cls, inputs, quota, pc, type_hints, attr, v, lock, pre,
                   results, assigned, log, validator>>

\* the key passes lines 65-72
Allowed(t) ==
    /\ pc[t] = "scan"
    /\ idx[t] <= Len(environ[t])
    /\ StartsWith(Key(t), prefix[t])
    /\ ~In(AttrOf(Key(t), prefix[t]),
           GetAttr(cls[obj[t]], N_no_environ_set, PyTuple(<<>>)))

\* lines 74-79 for the current key
Cast(t) ==
    Typecast(type_hints[t][AttrOf(Key(t), prefix[t])], environ[t][idx[t]].v)

\* lines 68-79: the typecast succeeds, or raises an exception of line 78
\* and the raw string is kept
Coerce(t) ==
    /\ Allowed(t)
    /\ Cast(t).exc \in Caught \cup {"none"}
    /\ attr' = [attr EXCEPT ![t] = AttrOf(Key(t), prefix[t])]
    /\ v' = [v EXCEPT ![t] = Cast(t).val]
    /\ pc' = [pc EXCEPT ![t] = "bind"]
    /\ UNCHANGED <<cls, inputs, quota, idx, type_hints, lock, pre, results,
                   assigned, log, validator>>

\* lines 74-79: the typecast raises an exception line 78 does not name; it
\* leaves the function
CoerceRaises(t) ==
    /\ Allowed(t)
    /\ Cast(t).exc \notin Caught \cup {"none"}
    /\ Leave(t, Cast(t).exc)
    /\ UNCHANGED <<cls, inputs, quota, locals, pre, assigned, log, validator>>

\* "password" in attr, line 86
Masked(t) ==
    Contains(attr[t], S_password)

\* v[:4] is defined for a str, not for an int or a bool
Sliceable(val) ==
    val.t = "str"

\* line 86: the value as the record shows it
Shown(t) ==
    IF Masked(t) THEN PyStr(S_mask \o Slice(v[t].v, 4)) ELSE v[t]

\* lines 82-87: the record is formatted and logged, then the attribute set
Assign(t) ==
    /\ pc[t] = "bind"
    /\ Masked(t) => Sliceable(v[t])
    /\ log' = Append(log, [key |-> Key(t), attr |-> attr[t],
                           value |-> v[t], shown |-> Shown(t)])
    /\ cls' = [cls EXCEPT ![obj[t]] = SetAttr(@, attr[t], v[t])]
    /\ assigned' = Append(assigned, [t |-> t, call |-> Len(results[t]) + 1,
                                     key |-> Key(t), attr |-> attr[t]])
    /\ idx' = [idx EXCEPT ![t] = @ + 1]
    /\ pc' = [pc EXCEPT ![t] = "scan"]
    /\ UNCHANGED <<inputs, quota, type_hints, attr, v, lock, pre, results,
                   validator>>

\* line 86: v[:4] raises TypeError, outside the try block of lines 75-79
FormatRaises(t) ==
    /\ pc[t] = "bind"
    /\ Masked(t)
    /\ ~Sliceable(v[t])
    /\ Leave(t, "TypeError")
    /\ UNCHANGED <<cls, inputs, quota, locals, pre, assigned, log, validator>>

\* the for loop is exhausted and the function returns
Return(t) ==
    /\ pc[t] = "scan"
    /\ idx[t] > Len(environ[t])
    /\ Leave(t, "none")
    /\ UNCHANGED <<cls, inputs, quota, locals, pre, assigned, log, validator>>

\* a caller evaluates get_missing_settings on the first class; no lock is
\* taken and no attribute written
GetMissing(t) ==
    /\ pc[t] = "idle"
    /\ missing' = get_missing_settings(cls[1])
    /\ validated' = TRUE
    /\ UNCHANGED <<cls, inputs, quota, pc, locals, lock, pre, results,
                   assigned, log, baseline>>

Next ==
    \E t \in {MainThread} :
        \/ Call(t)
        \/ NotPrefixed(t)
        \/ Disallowed(t)
        \/ Coerce(t)
        \/ CoerceRaises(t)
        \/ Assign(t)
        \/ FormatRaises(t)
        \/ Return(t)
        \/ GetMissing(t)

NextThreads ==
    \E t \in Threads :
        \/ Call(t)
        \/ NotPrefixed(t)
        \/ Disallowed(t)
        \/ Coerce(t)
        \/ CoerceRaises(t)
        \/ Assign(t)
        \/ FormatRaises(t)
        \/ Return(t)

Spec ==
    Init /\ [][Next]_vars

SpecThreads ==
    InitThreads /\ [][NextThreads]_vars

SpecOrders ==
    InitOrders /\ [][NextThreads]_vars

(* ---------------- properties ---------------- *)
\* thread t has finished at least one call and is in none
Finished(t) ==
    /\ pc[t] = "idle"
    /\ results[t] # <<>>

\* the exception the last finished call of t raised, "none" if it returned
LastExc(t) ==
    results[t][Len(results[t])].exc

\* the entries of t's environment that pass lines 65-72 against the class
\* as it was when the call began, with the name line 68 derives
Bindable(t) ==
    { i \in 1..Len(environ[t]) :
        /\ StartsWith(environ[t][i].k, prefix[t])
        /\ ~In(AttrOf(environ[t][i].k, prefix[t]),
               GetAttr(pre[t], N_no_environ_set, PyTuple(<<>>))) }

\* C1: after update_from_env every name listed in the _no_environ_set the
\* class had before the call holds the value it held before the call.
C1_NoEnvironSetKept ==
    \A t \in Threads :
        Finished(t) =>
            \A a \in AttrNames :
                In(a, GetAttr(pre[t], N_no_environ_set, PyTuple(<<>>)))
                    => cls[obj[t]].val[a] = pre[t].val[a]

\* C2: no setattr of one call falls between two setattr of another call.
C2_CallsSerialized ==
    \A i, j, k \in 1..Len(assigned) :
        /\ i < j
        /\ j < k
        /\ assigned[i].t = assigned[k].t
        /\ assigned[i].call = assigned[k].call
        => /\ assigned[j].t = assigned[i].t
           /\ assigned[j].call = assigned[i].call

\* C3: when the declared type of the derived field rejects the raw string,
\* the call ends without an exception and the field holds the raw string.
C3_RejectedKeepsRaw ==
    \A t \in Threads :
        Finished(t) =>
            \A i \in Bindable(t) :
                LET a == AttrOf(environ[t][i].k, prefix[t])
                    raw == environ[t][i].v
                IN  /\ pre[t].ann[a] # "NoHint"
                    /\ Typecast(pre[t].ann[a], raw).exc # "none"
                    => /\ LastExc(t) = "none"
                       /\ cls[obj[t]].val[a] = PyStr(raw)

\* C4: when the declared type of the derived field converts the raw string,
\* the field holds the converted value after the call.
C4_AcceptedIsConverted ==
    \A t \in Threads :
        Finished(t) =>
            \A i \in Bindable(t) :
                LET a == AttrOf(environ[t][i].k, prefix[t])
                    raw == environ[t][i].v
                IN  /\ pre[t].ann[a] # "NoHint"
                    /\ Typecast(pre[t].ann[a], raw).exc = "none"
                    => cls[obj[t]].val[a] = Typecast(pre[t].ann[a], raw).val

\* the place of name a in the sequence of names s
Position(s, a) ==
    CHOOSE i \in 1..Len(s) : s[i] = a

\* the names of c's __dict__ that are public, not optional and None
RequiredNone(c) ==
    { a \in {c.order[i] : i \in 1..Len(c.order)} :
        /\ ~StartsWith(a, S_underscore)
        /\ ~In(a, GetAttr(c, N_optional_settings, PyTuple(<<>>)))
        /\ c.val[a] = None }

\* m lists RequiredNone(c), each name once, in the order of c's __dict__
ExactlyMissing(c, m) ==
    /\ {m[i] : i \in 1..Len(m)} = RequiredNone(c)
    /\ \A i, j \in 1..Len(m) :
          i < j => Position(c.order, m[i]) < Position(c.order, m[j])

\* C5: get_missing_settings returns exactly the public, non-optional names
\* of the class that hold None, each once, in definition order (the empty
\* list when there is none), and changes no field of the class.
C5_MissingExact ==
    [][\A t \in Threads :
          GetMissing(t) => /\ ExactlyMissing(cls[1], missing')
                           /\ cls' = cls]_vars

\* C5 witness: get_missing_settings has returned a non-empty list for a
\* class that holds None in an optional field and in a private name, after
\* update_from_env has changed the class.
C5_Witness ==
    /\ validated
    /\ pc[MainThread] = "idle"
    /\ missing = get_missing_settings(cls[1])
    /\ Len(missing) >= 2
    /\ assigned # <<>>
    /\ cls[1].val[N_optional] = None
    /\ In(N_optional, GetAttr(cls[1], N_optional_settings, PyTuple(<<>>)))
    /\ cls[1].val[N_doc] = None

\* C6: a second call in a row, the environment unchanged, leaves every
\* field with the value the first call left.
C6_Idempotent ==
    \A t \in Threads :
        Len(results[t]) >= 2 => results[t][2].val = results[t][1].val

\* C7: the record for a name containing "password" never contains the full
\* value, and formatting it never prevents the assignment.
C7_PasswordMasked ==
    /\ \A i \in 1..Len(log) :
          Contains(log[i].attr, S_password)
              => ~Contains(log[i].shown.v, log[i].value.v)
    /\ \A t \in Threads : \A i \in 1..Len(results[t]) :
          results[t][i].exc # "TypeError"

\* C8: two runs on equal classes and environments with the same entries end
\* with the same value in every field, whatever the enumeration orders.
C8_OrderIndependent ==
    (\A t \in Threads : Finished(t)) => cls[1].val = cls[2].val

\* C9: the name assigned for key K = P + suffix is lower(suffix), and keys
\* that do not start with P are not assigned.
C9_LeadingPrefixOnly ==
    \A i \in 1..Len(assigned) :
        LET p == prefix[assigned[i].t]
            k == assigned[i].key
        IN  /\ StartsWith(k, p)
            /\ assigned[i].attr = Lower(SubSeq(k, Len(p) + 1, Len(k)))

\* C10: after any sequence of update_from_env calls, every name
\* get_missing_settings returns was returned for the class as constructed.
C10_NeverNewlyMissing ==
    /\ validated
    /\ Finished(MainThread)
    => \A i \in 1..Len(missing) : \E j \in 1..Len(baseline) : baseline[j] = missing[i]
====
